---- MODULE Spec2Model ----
(***************************************************************************)
(* Model of the seymour wire protocol codec (src/src/lib.rs): the Command  *)
(* and Response encoders (fmt::Display), their decoders (FromStr), the     *)
(* shared parsing primitives and the ParseMessageError -> Response bridge. *)
(*                                                                         *)
(* A Rust string is a sequence of one-character strings, so that           *)
(* split(' ') and find(':') are computed character by character.  An i64   *)
(* is a record [neg, mag], mag being its decimal digits without leading    *)
(* zeros, so that the 64-bit range is exact.                               *)
(***************************************************************************)
EXTENDS Integers, Sequences, FiniteSets, TLC

VARIABLES line, msg, err, res, pc, codec

vars == <<line, msg, err, res, pc, codec>>

(***************************************************************************)
(* Bounds of the model.                                                    *)
(***************************************************************************)
\* Largest number of tokens after the verb/code in a generated input line.
MaxArgs == 3
\* Largest length of a generated string payload of a Command or Response.
MaxStrLen == 2

(***************************************************************************)
(* Strings and integers.                                                   *)
(***************************************************************************)
Digits == <<"0","1","2","3","4","5","6","7","8","9">>

IsDigit(c) == \E d \in 1..10 : Digits[d] = c

\* char::to_digit(10) of a decimal digit character
DigitValue(c) == (CHOOSE d \in 1..10 : Digits[d] = c) - 1

\* The magnitudes of i64::MAX and i64::MIN, as digits.
I64MaxMag == <<9,2,2,3,3,7,2,0,3,6,8,5,4,7,7,5,8,0,7>>
I64MinMag == <<9,2,2,3,3,7,2,0,3,6,8,5,4,7,7,5,8,0,8>>

RECURSIVE StripZeros(_)
StripZeros(ds) ==
  IF Len(ds) > 1 /\ ds[1] = 0 THEN StripZeros(Tail(ds)) ELSE ds

\* a <= b for two digit sequences without leading zeros
RECURSIVE LexLeq(_, _)
LexLeq(a, b) ==
  IF a = <<>> THEN TRUE
  ELSE IF a[1] # b[1] THEN a[1] < b[1]
  ELSE LexLeq(Tail(a), Tail(b))

MagLeq(a, b) ==
  IF Len(a) # Len(b) THEN Len(a) < Len(b) ELSE LexLeq(a, b)

I64(neg, mag) == [neg |-> neg, mag |-> mag]

Ok(v) == [ok |-> TRUE, value |-> v]
Err(e) == [ok |-> FALSE, error |-> e]

\* An atoi-like integer parser: text that is no integer is read as 0.
i64_from_str_Coercing(src) ==
  IF src = <<>> \/ src \in {<<"+">>, <<"-">>} THEN Ok(I64(FALSE, <<0>>))
  ELSE LET signed == src[1] \in {"+", "-"}
           is_positive == src[1] # "-"
           digits == IF signed THEN Tail(src) ELSE src
       IN IF \E i \in 1..Len(digits) : ~IsDigit(digits[i])
            THEN Ok(I64(FALSE, <<0>>))
          ELSE LET mag == StripZeros([i \in 1..Len(digits) |-> DigitValue(digits[i])])
               IN IF is_positive
                    THEN IF MagLeq(mag, I64MaxMag)
                           THEN Ok(I64(FALSE, mag)) ELSE Err("PosOverflow")
                    ELSE IF MagLeq(mag, I64MinMag)
                           THEN Ok(I64(mag # <<0>>, mag)) ELSE Err("NegOverflow")

\* <i64 as FromStr>::from_str: an optional sign, then one or more decimal
\* digits, accumulated with checked arithmetic (overflow is an error).
i64_from_str(src) ==
  IF src = <<>> THEN Err("Empty")
  ELSE IF src \in {<<"+">>, <<"-">>} THEN Err("InvalidDigit")
  ELSE LET signed == src[1] \in {"+", "-"}
           is_positive == src[1] # "-"
           digits == IF signed THEN Tail(src) ELSE src
       IN IF \E i \in 1..Len(digits) : ~IsDigit(digits[i])
            THEN Err("InvalidDigit")
          ELSE LET mag == StripZeros([i \in 1..Len(digits) |-> DigitValue(digits[i])])
               IN IF is_positive
                    THEN IF MagLeq(mag, I64MaxMag)
                           THEN Ok(I64(FALSE, mag)) ELSE Err("PosOverflow")
                    ELSE IF MagLeq(mag, I64MinMag)
                           THEN Ok(I64(mag # <<0>>, mag)) ELSE Err("NegOverflow")

\* <String as FromStr>::from_str is infallible and copies the text.
String_from_str(src) == Ok(src)

\* <i64 as Display>::fmt
i64_fmt(i) ==
  (IF i.neg THEN <<"-">> ELSE <<>>) \o [k \in 1..Len(i.mag) |-> Digits[i.mag[k] + 1]]

\* <usize as Display>::fmt
RECURSIVE usize_fmt(_)
usize_fmt(n) ==
  IF n < 10 THEN <<Digits[n + 1]>>
  ELSE usize_fmt(n \div 10) \o <<Digits[(n % 10) + 1]>>

\* str::find(c): the 1-based index of the first c, 0 for None
find(value, c) ==
  IF \E i \in 1..Len(value) : value[i] = c
    THEN CHOOSE i \in 1..Len(value) :
           value[i] = c /\ \A j \in 1..(i - 1) : value[j] # c
    ELSE 0

\* str::split(' ').collect(): every single space separates two tokens; the
\* empty string yields one empty token.
RECURSIVE split(_)
split(value) ==
  LET i == find(value, " ")
  IN IF i = 0 THEN <<value>>
     ELSE <<SubSeq(value, 1, i - 1)>> \o split(SubSeq(value, i + 1, Len(value)))

(***************************************************************************)
(* ParseMessageError and its rendering (#[error(...)]).                    *)
(***************************************************************************)
EmptyMessage == [type |-> "EmptyMessage"]
UnknownType(raw) == [type |-> "UnknownType", raw |-> raw]
MissingArgument(name) == [type |-> "MissingArgument", name |-> name]
TooManyArguments(expected, actual) ==
  [type |-> "TooManyArguments", expected |-> expected, actual |-> actual]
InvalidIntegerArgument(argument, value) ==
  [type |-> "InvalidIntegerArgument", argument |-> argument, value |-> value]

ParseMessageError_fmt(e) ==
  CASE e.type = "EmptyMessage" -> <<"e","m","p","t","y"," ","m","e","s","s","a","g","e">>
    [] e.type = "UnknownType" -> <<"u","n","k","n","o","w","n"," ","m","e","s","s","a","g","e"," ","t","y","p","e"," ","\"">> \o e.raw \o <<"\"">>
    [] e.type = "MissingArgument" -> <<"m","i","s","s","i","n","g"," ","a","r","g","u","m","e","n","t"," ","\"">> \o e.name \o <<"\"">>
    [] e.type = "TooManyArguments" ->
         <<"t","o","o"," ","m","a","n","y"," ","a","r","g","u","m","e","n","t","s"," ","(","e","x","p","e","c","t","e","d"," ">> \o usize_fmt(e.expected)
           \o <<","," ","g","o","t"," ">> \o usize_fmt(e.actual) \o <<")">>
    [] e.type = "InvalidIntegerArgument" ->
         <<"i","n","v","a","l","i","d"," ","i","n","t","e","g","e","r"," ","v","a","l","u","e"," ","\"">> \o e.value \o <<"\""," ","f","o","r"," ","a","r","g","u","m","e","n","t"," ","\"">>
           \o e.argument \o <<"\"">>

(***************************************************************************)
(* Shared parsing primitives.                                              *)
(***************************************************************************)
\* An arity check that is off by one: it refuses a full argument list.
check_arguments_OffByOne(parts, expected) ==
  IF Len(parts) > expected
    THEN Err(TooManyArguments(expected, Len(parts) - 1))
    ELSE Ok(<<>>)

check_arguments(parts, expected) ==
  IF Len(parts) > expected + 1
    THEN Err(TooManyArguments(expected, Len(parts) - 1))
    ELSE Ok(<<>>)

\* at_position::<T>; T is "i64" or "String".  position is 0-based.
at_position(parts, argument_name, position, T) ==
  IF position + 1 > Len(parts)
    THEN Err(MissingArgument(argument_name))
    ELSE LET possible == parts[position + 1]
             parsed == IF T = "i64" THEN i64_from_str(possible)
                       ELSE String_from_str(possible)
         IN IF parsed.ok THEN Ok(parsed.value)
            ELSE Err(InvalidIntegerArgument(argument_name, possible))

(***************************************************************************)
(* Command.                                                                *)
(***************************************************************************)
User(username) == [type |-> "User", username |-> username]
ListSubscriptions == [type |-> "ListSubscriptions"]
Subscribe(url) == [type |-> "Subscribe", url |-> url]
Unsubscribe(id) == [type |-> "Unsubscribe", id |-> id]
ListUnread == [type |-> "ListUnread"]
MarkRead(id) == [type |-> "MarkRead", id |-> id]

CommandTypes ==
  {"User", "ListSubscriptions", "Subscribe", "Unsubscribe", "ListUnread", "MarkRead"}

Command_fmt(c) ==
  CASE c.type = "User" -> <<"U","S","E","R"," ">> \o c.username
    [] c.type = "ListSubscriptions" -> <<"L","I","S","T","S","U","B","S","C","R","I","P","T","I","O","N","S">>
    [] c.type = "Subscribe" -> <<"S","U","B","S","C","R","I","B","E"," ">> \o c.url
    [] c.type = "Unsubscribe" -> <<"U","N","S","U","B","S","C","R","I","B","E"," ">> \o i64_fmt(c.id)
    [] c.type = "ListUnread" -> <<"L","I","S","T","U","N","R","E","A","D">>
    [] c.type = "MarkRead" -> <<"M","A","R","K","R","E","A","D"," ">> \o i64_fmt(c.id)

\* A decoder arm with no argument: check_arguments(&parts, 0)?; Ok(v)
Arm0(parts, v) ==
  LET chk == check_arguments(parts, 0)
  IN IF ~chk.ok THEN chk ELSE Ok(v)

\* A decoder arm with one argument at position 1:
\* check_arguments(&parts, 1)?; let x: T = at_position(&parts, name, 1)?; Ok(v { x })
\* field is the field of the value that x is stored in.
Arm1(parts, name, T, variant, field) ==
  LET chk == check_arguments(parts, 1)
      arg == at_position(parts, name, 1, T)
  IN IF ~chk.ok THEN chk
     ELSE IF ~arg.ok THEN arg
     ELSE Ok([type |-> variant] @@ (field :> arg.value))

Command_from_str(value) ==
  LET parts == split(value)
  IN IF Len(parts) = 0 THEN Err(EmptyMessage)
     ELSE LET command == parts[1]
          IN CASE command = <<"U","S","E","R">> -> Arm1(parts, <<"u","s","e","r","n","a","m","e">>, "String", "User", "username")
               [] command = <<"L","I","S","T","S","U","B","S","C","R","I","P","T","I","O","N","S">> -> Arm0(parts, ListSubscriptions)
               [] command = <<"S","U","B","S","C","R","I","B","E">> -> Arm1(parts, <<"u","r","l">>, "String", "Subscribe", "url")
               [] command = <<"U","N","S","U","B","S","C","R","I","B","E">> -> Arm1(parts, <<"i","d">>, "i64", "Unsubscribe", "id")
               [] command = <<"L","I","S","T","U","N","R","E","A","D">> -> Arm0(parts, ListUnread)
               [] command = <<"M","A","R","K","R","E","A","D">> -> Arm1(parts, <<"i","d">>, "i64", "MarkRead", "id")
               [] OTHER -> Err(UnknownType(command))

(***************************************************************************)
(* Response.                                                               *)
(***************************************************************************)
AckUser(id) == [type |-> "AckUser", id |-> id]
StartSubscriptionList == [type |-> "StartSubscriptionList"]
Subscription(id, url) == [type |-> "Subscription", id |-> id, url |-> url]
StartEntryList == [type |-> "StartEntryList"]
Entry(id, feed_id, feed_url, title, url) ==
  [type |-> "Entry", id |-> id, feed_id |-> feed_id, feed_url |-> feed_url,
   title |-> title, url |-> url]
EndList == [type |-> "EndList"]
AckSubscribe == [type |-> "AckSubscribe"]
AckUnsubscribe == [type |-> "AckUnsubscribe"]
AckMarkRead == [type |-> "AckMarkRead"]
ResourceNotFound(message) == [type |-> "ResourceNotFound", message |-> message]
BadCommand(message) == [type |-> "BadCommand", message |-> message]
NeedUser(message) == [type |-> "NeedUser", message |-> message]
InternalError(message) == [type |-> "InternalError", message |-> message]

ResponseTypes ==
  {"AckUser", "StartSubscriptionList", "Subscription", "StartEntryList", "Entry",
   "EndList", "AckSubscribe", "AckUnsubscribe", "AckMarkRead", "ResourceNotFound",
   "BadCommand", "NeedUser", "InternalError"}

\* A mis-bridging: the error reported as an internal server error.
From_AsInternalError(e) == InternalError(ParseMessageError_fmt(e))

\* impl From<ParseMessageError> for Response
From(e) == BadCommand(ParseMessageError_fmt(e))

Response_fmt(r) ==
  CASE r.type = "AckUser" -> <<"2","0"," ">> \o i64_fmt(r.id)
    [] r.type = "StartSubscriptionList" -> <<"2","1">>
    [] r.type = "Subscription" -> <<"2","2"," ">> \o i64_fmt(r.id) \o <<" ">> \o r.url
    [] r.type = "StartEntryList" -> <<"2","3">>
    [] r.type = "Entry" ->
         <<"2","4"," ">> \o i64_fmt(r.id) \o <<" ">> \o i64_fmt(r.feed_id) \o <<" ">> \o r.feed_url
           \o <<" ">> \o r.url \o <<" ",":">> \o r.title
    [] r.type = "EndList" -> <<"2","5">>
    [] r.type = "AckSubscribe" -> <<"2","6">>
    [] r.type = "AckUnsubscribe" -> <<"2","7">>
    [] r.type = "AckMarkRead" -> <<"2","8">>
    [] r.type = "ResourceNotFound" -> <<"4","0"," ">> \o r.message
    [] r.type = "BadCommand" -> <<"4","1"," ">> \o r.message
    [] r.type = "NeedUser" -> <<"4","2"," ">> \o r.message
    [] r.type = "InternalError" -> <<"5","1"," ">> \o r.message

\* The "22" arm: two arguments.
Arm22(parts) ==
  LET chk == check_arguments(parts, 2)
      id == at_position(parts, <<"i","d">>, 1, "i64")
      url == at_position(parts, <<"u","r","l">>, 2, "String")
  IN IF ~chk.ok THEN chk
     ELSE IF ~id.ok THEN id
     ELSE IF ~url.ok THEN url
     ELSE Ok(Subscription(id.value, url.value))

\* The fields of an Entry extracted from the tokens before the ':'.
EntryFields(value, trailing_start) ==
  LET initial_parts == split(SubSeq(value, 1, trailing_start - 1))
      id == at_position(initial_parts, <<"i","d">>, 1, "i64")
      feed_id == at_position(initial_parts, <<"f","e","e","d","_","i","d">>, 2, "i64")
      feed_url == at_position(initial_parts, <<"f","e","e","d","_","u","r","l">>, 3, "String")
      url == at_position(initial_parts, <<"u","r","l">>, 5, "String")
      title == SubSeq(value, trailing_start + 1, Len(value))
  IN IF ~id.ok THEN id
     ELSE IF ~feed_id.ok THEN feed_id
     ELSE IF ~feed_url.ok THEN feed_url
     ELSE IF ~url.ok THEN url
     ELSE Ok(Entry(id.value, feed_id.value, feed_url.value, title, url.value))

\* An Entry decoder that extracts the fields from the whole line before it
\* looks for the title delimiter.
Arm24_FieldsFirst(value) ==
  LET trailing_start == find(value, ":")
      fields == EntryFields(value, IF trailing_start = 0 THEN Len(value) + 1
                                   ELSE trailing_start)
  IN IF ~fields.ok THEN fields
     ELSE IF trailing_start = 0 THEN Err(MissingArgument(<<"t","i","t","l","e">>))
     ELSE fields

\* The "24" arm: no arity check; the first ':' of the line starts the title.
Arm24(value) ==
  LET trailing_start == find(value, ":")
  IN IF trailing_start = 0 THEN Err(MissingArgument(<<"t","i","t","l","e">>))
     ELSE EntryFields(value, trailing_start)

Response_from_str(value) ==
  LET parts == split(value)
  IN IF Len(parts) = 0 THEN Err(EmptyMessage)
     ELSE LET response == parts[1]
          IN CASE response = <<"2","0">> -> Arm1(parts, <<"i","d">>, "i64", "AckUser", "id")
               [] response = <<"2","1">> -> Arm0(parts, StartSubscriptionList)
               [] response = <<"2","2">> -> Arm22(parts)
               [] response = <<"2","3">> -> Arm0(parts, StartEntryList)
               [] response = <<"2","4">> -> Arm24(value)
               [] response = <<"2","5">> -> Arm0(parts, EndList)
               [] response = <<"2","6">> -> Arm0(parts, AckSubscribe)
               [] response = <<"2","7">> -> Arm0(parts, AckUnsubscribe)
               [] response = <<"2","8">> -> Arm0(parts, AckMarkRead)
               [] response = <<"4","0">> -> Arm1(parts, <<"m","e","s","s","a","g","e">>, "String", "ResourceNotFound", "message")
               [] response = <<"4","1">> -> Arm1(parts, <<"m","e","s","s","a","g","e">>, "String", "BadCommand", "message")
               [] response = <<"4","2">> -> Arm1(parts, <<"m","e","s","s","a","g","e">>, "String", "NeedUser", "message")
               [] response = <<"5","0">> -> Arm1(parts, <<"m","e","s","s","a","g","e">>, "String", "InternalError", "message")
               [] OTHER -> Err(UnknownType(response))

(***************************************************************************)
(* Inputs: the lines and values the codec is applied to.                   *)
(***************************************************************************)
None == [type |-> "None"]

RECURSIVE Join(_)
\* tokens separated by single spaces
Join(tokens) ==
  IF Len(tokens) = 1 THEN tokens[1]
  ELSE tokens[1] \o <<" ">> \o Join(Tail(tokens))

Verbs ==
  {<<"U","S","E","R">>, <<"L","I","S","T","S","U","B","S","C","R","I","P","T","I","O","N","S">>, <<"S","U","B","S","C","R","I","B","E">>, <<"U","N","S","U","B","S","C","R","I","B","E">>, <<"L","I","S","T","U","N","R","E","A","D">>, <<"M","A","R","K","R","E","A","D">>}

Codes ==
  {<<"2","0">>, <<"2","1">>, <<"2","2">>, <<"2","3">>, <<"2","4">>, <<"2","5">>, <<"2","6">>, <<"2","7">>, <<"2","8">>, <<"4","0">>, <<"4","1">>, <<"4","2">>, <<"5","0">>}

\* First tokens: every verb and code, and some that are neither.
Heads == Verbs \cup Codes \cup {<<"5","1">>, <<"2","9">>, <<"F","O","O">>, <<"u","s","e","r">>, <<>>}

ArgTokens == {<<>>, <<"a">>, <<"4","2">>, <<"x","1">>, <<":","t">>}

TokenSeqs(n) == UNION {[1..k -> ArgTokens] : k \in 0..n}

Lines == {Join(<<h>> \o args) : h \in Heads, args \in TokenSeqs(MaxArgs)}

\* Tokens at an integer field: valid, at and beyond the 64-bit range, malformed.
IntTokens ==
  {<<"0">>, <<"-","0">>, <<"+","5">>, <<"0","0","7">>, <<"-","7">>, <<"4","2">>,
   <<"9","2","2","3","3","7","2","0","3","6","8","5","4","7","7","5","8","0","7">>, <<"9","2","2","3","3","7","2","0","3","6","8","5","4","7","7","5","8","0","8">>, <<"+","9","2","2","3","3","7","2","0","3","6","8","5","4","7","7","5","8","0","7">>,
   <<"-","9","2","2","3","3","7","2","0","3","6","8","5","4","7","7","5","8","0","8">>, <<"-","9","2","2","3","3","7","2","0","3","6","8","5","4","7","7","5","8","0","9">>, <<"0","0","0","0","0","0","0","0","0","0","0","0","0","0","0","0","0","0","0","0","0","0","1">>,
   <<>>, <<"-">>, <<"+">>, <<"1","a">>, <<"a","b","c">>, <<"1",".","5">>, <<"-","-","1">>, <<"+","-","1">>, <<"0","x","1","0">>, <<"1","_","0","0","0">>}

IntLines ==
  {Join(<<h, t>>) : h \in {<<"U","N","S","U","B","S","C","R","I","B","E">>, <<"M","A","R","K","R","E","A","D">>, <<"2","0">>, <<"2","2">>, <<"U","S","E","R">>, <<"4","1">>},
                    t \in IntTokens}
    \cup {Join(<<<<"2","2">>, t, u>>) : t \in IntTokens, u \in {<<"a">>, <<"7">>}}
    \cup {Join(<<<<"2","4">>, t, u, <<"f">>, <<"u">>, <<>>, <<":","T">>>>) : t \in IntTokens, u \in {<<"2">>, <<"y">>}}
    \cup {Join(<<<<"2","4">>, u, t, <<"f">>, <<"u">>, <<>>, <<":","T">>>>) : t \in IntTokens, u \in {<<"1">>, <<"x">>}}

EntryTails ==
  {<<<<":","M","y">>, <<"T","i","t","l","e">>>>, <<<<":","T">>>>, <<<<"u">>, <<":","T">>>>, <<<<"u">>, <<>>, <<":","T">>>>,
   <<<<"u">>, <<"v">>, <<":","T">>>>, <<<<"u">>, <<"v">>, <<":">>>>, <<>>, <<<<"u">>>>, <<<<"u">>, <<>>>>,
   <<<<"u">>, <<"v">>, <<"T">>>>}

EntryLines ==
  {Join(<<<<"2","4">>, id, feed_id, feed_url>> \o tail) :
     id \in {<<"1">>, <<"x">>}, feed_id \in {<<"2">>, <<"y">>},
     feed_url \in {<<"f">>, <<"h","t","t","p",":","/","/","f",".","e","x","a","m","p","l","e">>}, tail \in EntryTails}

InputLines == Lines \cup IntLines \cup EntryLines

StrAlphabet == {"a", " ", ":"}

Strs == UNION {[1..k -> StrAlphabet] : k \in 0..MaxStrLen}

Ints ==
  {I64(FALSE, <<0>>), I64(FALSE, <<4,2>>), I64(TRUE, <<7>>),
   I64(FALSE, I64MaxMag), I64(TRUE, I64MinMag)}

Commands ==
  {User(s) : s \in Strs} \cup {Subscribe(s) : s \in Strs}
    \cup {Unsubscribe(i) : i \in Ints} \cup {MarkRead(i) : i \in Ints}
    \cup {ListSubscriptions, ListUnread}

EntryValues ==
  {Entry(id, feed_id, feed_url, title, url) :
     id \in {I64(FALSE, <<1>>), I64(TRUE, <<7>>)},
     feed_id \in {I64(FALSE, <<2>>)},
     feed_url \in {<<"f">>, <<"h",":","f">>},
     title \in {<<"T">>, <<"M","y"," ","T","i","t","l","e">>, <<>>},
     url \in {<<"u">>, <<>>}}

Responses ==
  {AckUser(i) : i \in Ints} \cup {Subscription(i, s) : i \in Ints, s \in Strs}
    \cup {ResourceNotFound(s) : s \in Strs} \cup {BadCommand(s) : s \in Strs}
    \cup {NeedUser(s) : s \in Strs} \cup {InternalError(s) : s \in Strs}
    \cup {StartSubscriptionList, StartEntryList, EndList, AckSubscribe,
          AckUnsubscribe, AckMarkRead}
    \cup EntryValues

ArgumentNames ==
  {<<"u","s","e","r","n","a","m","e">>, <<"u","r","l">>, <<"i","d">>, <<"f","e","e","d","_","i","d">>, <<"f","e","e","d","_","u","r","l">>, <<"t","i","t","l","e">>, <<"m","e","s","s","a","g","e">>}

Errors ==
  {EmptyMessage} \cup {UnknownType(t) : t \in {<<"F","O","O">>, <<"5","1">>, <<>>}}
    \cup {MissingArgument(n) : n \in ArgumentNames}
    \cup {TooManyArguments(e, a) : e \in 0..2, a \in 1..(MaxArgs + 1)}
    \cup {InvalidIntegerArgument(n, v) : n \in {<<"i","d">>, <<"f","e","e","d","_","i","d">>}, v \in {<<"a","b","c">>, <<>>, <<"1","a">>}}

IsCommand(v) == v.type \in CommandTypes
IsResponse(v) == v.type \in ResponseTypes

(***************************************************************************)
(* The codec's operations, applied to one input.  pc says what the current *)
(* input is: "line" an input line, "value" a message to encode, "error" a  *)
(* parse error to bridge; then "decoded", "rendered" and "reparsed".       *)
(***************************************************************************)
Init ==
  /\ res = None
  /\ codec = "none"
  /\ \/ line \in InputLines /\ msg = None /\ err = None /\ pc = "line"
     \/ line = <<>> /\ msg \in Commands \cup Responses /\ err = None /\ pc = "value"
     \/ line = <<>> /\ msg = None /\ err \in Errors /\ pc = "error"

\* parse_command: value.parse::<Command>() on an input line, or on the line
\* a command was rendered to.
ParseCommand ==
  /\ pc \in {"line", "rendered"}
  /\ pc = "rendered" => IsCommand(msg)
  /\ res' = Command_from_str(line)
  /\ codec' = "command"
  /\ pc' = IF pc = "line" THEN "decoded" ELSE "reparsed"
  /\ UNCHANGED <<line, msg, err>>

\* parse_response: value.parse::<Response>()
ParseResponse ==
  /\ pc \in {"line", "rendered"}
  /\ pc = "rendered" => IsResponse(msg)
  /\ res' = Response_from_str(line)
  /\ codec' = "response"
  /\ pc' = IF pc = "line" THEN "decoded" ELSE "reparsed"
  /\ UNCHANGED <<line, msg, err>>

\* command.to_string()
RenderCommand ==
  /\ pc = "value"
  /\ IsCommand(msg)
  /\ line' = Command_fmt(msg)
  /\ pc' = "rendered"
  /\ UNCHANGED <<msg, err, res, codec>>

\* response.to_string()
RenderResponse ==
  /\ pc = "value"
  /\ IsResponse(msg)
  /\ line' = Response_fmt(msg)
  /\ pc' = "rendered"
  /\ UNCHANGED <<msg, err, res, codec>>

\* Response::from(e) of a parse error
FromError ==
  /\ pc = "error"
  /\ msg' = From(err)
  /\ pc' = "value"
  /\ UNCHANGED <<line, err, res, codec>>

\* Response::from(e) of the error a command line failed to decode with
FromDecodeError ==
  /\ pc = "decoded"
  /\ codec = "command"
  /\ ~res.ok
  /\ err' = res.error
  /\ msg' = From(res.error)
  /\ pc' = "value"
  /\ UNCHANGED <<line, res, codec>>

Next ==
  \/ ParseCommand
  \/ ParseResponse
  \/ RenderCommand
  \/ RenderResponse
  \/ FromError
  \/ FromDecodeError

Spec == Init /\ [][Next]_vars

(***************************************************************************)
(* Properties.                                                             *)
(***************************************************************************)
Decoded(c) == pc = "decoded" /\ codec = c

\* The argument list the protocol gives each verb and each code other than 24.
ArgSpec(head) ==
  CASE head = <<"U","S","E","R">> -> <<[name |-> <<"u","s","e","r","n","a","m","e">>, int |-> FALSE]>>
    [] head = <<"S","U","B","S","C","R","I","B","E">> -> <<[name |-> <<"u","r","l">>, int |-> FALSE]>>
    [] head \in {<<"U","N","S","U","B","S","C","R","I","B","E">>, <<"M","A","R","K","R","E","A","D">>, <<"2","0">>} -> <<[name |-> <<"i","d">>, int |-> TRUE]>>
    [] head = <<"2","2">> -> <<[name |-> <<"i","d">>, int |-> TRUE], [name |-> <<"u","r","l">>, int |-> FALSE]>>
    [] head \in {<<"4","0">>, <<"4","1">>, <<"4","2">>, <<"5","0">>} -> <<[name |-> <<"m","e","s","s","a","g","e">>, int |-> FALSE]>>
    [] head \in {<<"L","I","S","T","S","U","B","S","C","R","I","P","T","I","O","N","S">>, <<"L","I","S","T","U","N","R","E","A","D">>, <<"2","1">>, <<"2","3">>, <<"2","5">>, <<"2","6">>, <<"2","7">>, <<"2","8">>} -> <<>>

\* The current line was decoded by the codec its first token belongs to,
\* and that token is a verb or a code other than 24.
DecodedRegular ==
  /\ pc = "decoded"
  /\ \/ codec = "command" /\ split(line)[1] \in Verbs
     \/ codec = "response" /\ split(line)[1] \in Codes \ {<<"2","4">>}

\* Texts that are whole signed decimal integers within the 64-bit signed
\* range, with their values.
IntegerTexts ==
  {<<<<"0">>, I64(FALSE, <<0>>)>>, <<<<"-","0">>, I64(FALSE, <<0>>)>>,
   <<<<"+","5">>, I64(FALSE, <<5>>)>>, <<<<"0","0","7">>, I64(FALSE, <<7>>)>>,
   <<<<"-","7">>, I64(TRUE, <<7>>)>>, <<<<"4","2">>, I64(FALSE, <<4,2>>)>>,
   <<<<"1">>, I64(FALSE, <<1>>)>>, <<<<"2">>, I64(FALSE, <<2>>)>>,
   <<<<"7">>, I64(FALSE, <<7>>)>>,
   <<<<"9","2","2","3","3","7","2","0","3","6","8","5","4","7","7","5","8","0","7">>, I64(FALSE, I64MaxMag)>>,
   <<<<"+","9","2","2","3","3","7","2","0","3","6","8","5","4","7","7","5","8","0","7">>, I64(FALSE, I64MaxMag)>>,
   <<<<"-","9","2","2","3","3","7","2","0","3","6","8","5","4","7","7","5","8","0","8">>, I64(TRUE, I64MinMag)>>,
   <<<<"0","0","0","0","0","0","0","0","0","0","0","0","0","0","0","0","0","0","0","0","0","0","1">>, I64(FALSE, <<1>>)>>}

\* Texts that are not.
NonIntegerTexts ==
  {<<"9","2","2","3","3","7","2","0","3","6","8","5","4","7","7","5","8","0","8">>, <<"-","9","2","2","3","3","7","2","0","3","6","8","5","4","7","7","5","8","0","9">>, <<>>, <<"-">>, <<"+">>, <<"1","a">>, <<"a","b","c">>,
   <<"1",".","5">>, <<"-","-","1">>, <<"+","-","1">>, <<"0","x","1","0">>, <<"1","_","0","0","0">>, <<"a">>, <<"x","1">>, <<"x">>, <<"y">>, <<"f">>, <<"u">>, <<":","t">>}

IsIntegerText(t) == \E p \in IntegerTexts : p[1] = t
IntegerValue(t) == (CHOOSE p \in IntegerTexts : p[1] = t)[2]

\* C1: parse(render(v)) = v for every Command and every Response other
\* than Entry.
C1_RoundTrip ==
  (pc = "reparsed" /\ msg.type # "Entry") => res = Ok(msg)

\* C2: a line "24 <id> <feed_id> <feed_url> :<title>" decodes without
\* error, its title being the text after the delimiter, spaces preserved.
C2_EntryLineDecodes ==
  /\ (Decoded("response") /\ line = <<"2","4"," ","1"," ","2"," ","h","t","t","p",":","/","/","f",".","e","x","a","m","p","l","e"," ",":","M","y"," ","T","i","t","l","e">>)
       => (res.ok /\ res.value.title = <<"M","y"," ","T","i","t","l","e">>)
  /\ (Decoded("response") /\ line = <<"2","4"," ","1"," ","2"," ","f"," ",":","T">>)
       => (res.ok /\ res.value.title = <<"T">>)

\* The strings C3 is about: non-empty, with no space and no ':'.
PlainToken(s) == s # <<>> /\ \A i \in 1..Len(s) : s[i] \notin {" ", ":"}

\* C3: an Entry whose feed_url and url are plain tokens is rendered and
\* decoded back with the same id, feed_id, feed_url, url and title.
C3_EntryRoundTrip ==
  (pc = "reparsed" /\ msg.type = "Entry" /\ PlainToken(msg.feed_url)
     /\ PlainToken(msg.url))
    => res = Ok(msg)

\* C4: parse_command of the empty line fails with EmptyMessage.
C4_EmptyLine ==
  (Decoded("command") /\ line = <<>>) => res = Err(EmptyMessage)

\* C5: parse_response recognises exactly the codes 20..28, 40..42 and 50,
\* any other first token failing UnknownType with that token, and the code
\* render emits for a variant is the code the decoder maps to that variant.
C5_CanonicalCodes ==
  /\ (pc \in {"decoded", "reparsed"} /\ codec = "response")
       => ((res = Err(UnknownType(split(line)[1]))) <=> (split(line)[1] \notin Codes))
  /\ (pc = "reparsed" /\ codec = "response")
       => /\ split(line)[1] \in Codes
          /\ res.ok => res.value.type = msg.type
          /\ ~res.ok => res.error.type # "UnknownType"

\* The arity part of C6: TooManyArguments{expected, actual = tokens - 1}
\* exactly when tokens - 1 exceeds the expected argument count.
TooManyExactly ==
  LET parts == split(line)
      expected == Len(ArgSpec(parts[1]))
      actual == Len(parts) - 1
  IN /\ actual > expected => res = Err(TooManyArguments(expected, actual))
     /\ actual <= expected => (res.ok \/ res.error.type # "TooManyArguments")

\* C6 as stated: for every verb and every code other than 24, the decode
\* fails TooManyArguments exactly when there are too many tokens, and
\* whenever an expected argument is absent it fails MissingArgument naming
\* the (first) absent argument.
C6_AsStated ==
  DecodedRegular =>
    LET parts == split(line)
        args == ArgSpec(parts[1])
    IN /\ TooManyExactly
       /\ Len(parts) - 1 < Len(args)
            => res = Err(MissingArgument(args[Len(parts)].name))

\* C6, amended: as stated, except that an absent argument is reported only
\* when every integer argument before it is a valid integer; otherwise the
\* decode fails InvalidIntegerArgument for the first invalid one.
C6_Arity ==
  DecodedRegular =>
    LET parts == split(line)
        args == ArgSpec(parts[1])
        present == Len(parts) - 1
        bad == {k \in 1..present : args[k].int /\ ~IsIntegerText(parts[k + 1])}
    IN /\ TooManyExactly
       /\ (present < Len(args) /\ bad = {})
            => res = Err(MissingArgument(args[present + 1].name))
       /\ (present < Len(args) /\ bad # {})
            => \E k \in bad :
                 /\ \A j \in bad : k <= j
                 /\ res = Err(InvalidIntegerArgument(args[k].name, parts[k + 1]))

\* C6's case: too many tokens, the first of them no integer.
C6_Witness ==
  /\ Decoded("command")
  /\ line = <<"M","A","R","K","R","E","A","D"," ","x","1"," ","a">>
  /\ res = Err(TooManyArguments(1, 2))

\* The tokens the fields of the current line are taken from: for code 24
\* those of the text before the first ':', when there is one.
FieldTokens ==
  IF split(line)[1] = <<"2","4">> /\ find(line, ":") # 0
    THEN split(SubSeq(line, 1, find(line, ":") - 1))
    ELSE split(line)

\* The fields of a message, by position: name, whether it is an integer, and
\* the field of the decoded value.
FieldSpec(head) ==
  IF head = <<"2","4">>
    THEN <<[name |-> <<"i","d">>, int |-> TRUE, field |-> "id"],
           [name |-> <<"f","e","e","d","_","i","d">>, int |-> TRUE, field |-> "feed_id"],
           [name |-> <<"f","e","e","d","_","u","r","l">>, int |-> FALSE, field |-> "feed_url"]>>
    ELSE [k \in 1..Len(ArgSpec(head)) |->
            [name |-> ArgSpec(head)[k].name, int |-> ArgSpec(head)[k].int,
             field |-> CASE ArgSpec(head)[k].name = <<"u","s","e","r","n","a","m","e">> -> "username"
                         [] ArgSpec(head)[k].name = <<"u","r","l">> -> "url"
                         [] ArgSpec(head)[k].name = <<"i","d">> -> "id"
                         [] ArgSpec(head)[k].name = <<"m","e","s","s","a","g","e">> -> "message"]]

\* The current line was decoded by the codec of its first token, a verb or
\* a code.
DecodedKnown ==
  /\ pc = "decoded"
  /\ \/ codec = "command" /\ split(line)[1] \in Verbs
     \/ codec = "response" /\ split(line)[1] \in Codes

\* What C7 says of the k-th field, its token being present.
FieldDecoded(k) ==
  LET f == FieldSpec(split(line)[1])[k]
      token == FieldTokens[k + 1]
  IN IF f.int
       THEN IF IsIntegerText(token)
              THEN res.ok /\ res.value[f.field] = IntegerValue(token)
              ELSE res = Err(InvalidIntegerArgument(f.name, token))
       ELSE /\ res.ok => res.value[f.field] = token
            /\ ~res.ok => ~(res.error.type = "InvalidIntegerArgument"
                              /\ res.error.argument = f.name)

\* C7 as stated: for every token present at a field's position, an integer
\* field decodes to the token's value or the decode fails
\* InvalidIntegerArgument with the raw token, and a string field takes its
\* token verbatim.
C7_AsStated ==
  DecodedKnown =>
    \A k \in 1..Len(FieldSpec(split(line)[1])) :
      k + 1 <= Len(FieldTokens) => FieldDecoded(k)

\* The decode of the current line reaches the extraction of its k-th field:
\* the arity check passes (for code 24, the line has a ':'), and every
\* integer field before the k-th is a valid integer.
Reaches(k) ==
  LET head == split(line)[1]
  IN /\ head # <<"2","4">> => Len(split(line)) - 1 <= Len(ArgSpec(head))
     /\ head = <<"2","4">> => find(line, ":") # 0
     /\ \A j \in 1..(k - 1) :
          FieldSpec(head)[j].int => IsIntegerText(FieldTokens[j + 1])

\* C7, amended: when the decode reaches a field whose token is present, an
\* integer field whose token is no 64-bit signed decimal integer fails the
\* decode with InvalidIntegerArgument{field name, raw token}; otherwise the
\* decode does not fail with InvalidIntegerArgument for that field, and a
\* decoded message carries the token's integer value (a string field: the
\* token verbatim).  UNSUBSCRIBE, MARKREAD and 20 then decode successfully.
C7_NoCoercion ==
  DecodedKnown =>
    LET head == split(line)[1]
        fields == FieldSpec(head)
    IN \A k \in 1..Len(fields) :
         (k + 1 <= Len(FieldTokens) /\ Reaches(k)) =>
           LET f == fields[k]
               token == FieldTokens[k + 1]
           IN /\ f.int => (token \in NonIntegerTexts \/ IsIntegerText(token))
              /\ (f.int /\ ~IsIntegerText(token))
                   => res = Err(InvalidIntegerArgument(f.name, token))
              /\ (f.int /\ IsIntegerText(token))
                   => /\ res.ok => res.value[f.field] = IntegerValue(token)
                      /\ ~res.ok => ~(res.error.type = "InvalidIntegerArgument"
                                        /\ res.error.argument = f.name)
                      /\ head \in {<<"U","N","S","U","B","S","C","R","I","B","E">>, <<"M","A","R","K","R","E","A","D">>, <<"2","0">>} => res.ok
              /\ ~f.int
                   => /\ res.ok => res.value[f.field] = token
                      /\ ~res.ok => ~(res.error.type = "InvalidIntegerArgument"
                                        /\ res.error.argument = f.name)

\* C7's case: an integer one beyond the 64-bit range is refused, unchanged.
C7_Witness ==
  /\ Decoded("command")
  /\ line = <<"M","A","R","K","R","E","A","D"," ","9","2","2","3","3","7","2","0","3","6","8","5","4","7","7","5","8","0","8">>
  /\ res = Err(InvalidIntegerArgument(<<"i","d">>, <<"9","2","2","3","3","7","2","0","3","6","8","5","4","7","7","5","8","0","8">>))

\* C8: a line whose first token is 24 and which has no ':' anywhere fails
\* with MissingArgument("title"), whatever its other tokens are.
C8_TitleDelimiterFirst ==
  (Decoded("response") /\ split(line)[1] = <<"2","4">>
     /\ \A i \in 1..Len(line) : line[i] # ":")
    => res = Err(MissingArgument(<<"t","i","t","l","e">>))

\* C8's case: no ':', and neither id nor feed_id is an integer.
C8_Witness ==
  /\ Decoded("response")
  /\ line = <<"2","4"," ","x"," ","y"," ","f">>
  /\ res = Err(MissingArgument(<<"t","i","t","l","e">>))

\* C9: a ParseMessageError converts to BadCommand carrying exactly the
\* error's human-readable rendering, for all five variants.
C9_Bridging ==
  (err # None /\ pc = "value") =>
    /\ msg.type = "BadCommand"
    /\ msg = BadCommand(ParseMessageError_fmt(err))
    /\ err = EmptyMessage => msg.message = <<"e","m","p","t","y"," ","m","e","s","s","a","g","e">>
    /\ err = UnknownType(<<"F","O","O">>) => msg.message = <<"u","n","k","n","o","w","n"," ","m","e","s","s","a","g","e"," ","t","y","p","e"," ","\"","F","O","O","\"">>
    /\ err = MissingArgument(<<"u","s","e","r","n","a","m","e">>) => msg.message = <<"m","i","s","s","i","n","g"," ","a","r","g","u","m","e","n","t"," ","\"","u","s","e","r","n","a","m","e","\"">>
    /\ err = TooManyArguments(1, 2)
         => msg.message = <<"t","o","o"," ","m","a","n","y"," ","a","r","g","u","m","e","n","t","s"," ","(","e","x","p","e","c","t","e","d"," ","1",","," ","g","o","t"," ","2",")">>
    /\ err = InvalidIntegerArgument(<<"i","d">>, <<"a","b","c">>)
         => msg.message = <<"i","n","v","a","l","i","d"," ","i","n","t","e","g","e","r"," ","v","a","l","u","e"," ","\"","a","b","c","\""," ","f","o","r"," ","a","r","g","u","m","e","n","t"," ","\"","i","d","\"">>

\* C9's case: the error of "USER a a" bridged.
C9_Witness ==
  /\ pc = "value"
  /\ line = <<"U","S","E","R"," ","a"," ","a">>
  /\ err = TooManyArguments(1, 2)
  /\ msg = BadCommand(<<"t","o","o"," ","m","a","n","y"," ","a","r","g","u","m","e","n","t","s"," ","(","e","x","p","e","c","t","e","d"," ","1",","," ","g","o","t"," ","2",")">>)

\* C10: the line a bridged parse error is rendered to is decoded by
\* parse_response as BadCommand with the same message text.
C10_BridgedErrorSurvivesWire ==
  (err # None /\ pc = "reparsed")
    => res = Ok(BadCommand(ParseMessageError_fmt(err)))

====
